---- MODULE Spec2Model ----
(***************************************************************************)
(* Order-creation webhook service of COMICS_LOUNGE (src/index.js).         *)
(*                                                                         *)
(* src/index.js holds two variants of the service:                         *)
(*   variant 1 (lines 1-320): acknowledges at once, then writes a note on  *)
(*     the order;                                                          *)
(*   variant 2 (lines 322-614): MongoDB-backed pipeline: eligibility,      *)
(*     generateUniqueCode, sendCodeToComicsLounge, insertOne,              *)
(*     updateOrderWithNote, then the HTTP answer.                          *)
(* The deployed variant is fixed at start-up (variable "variant").         *)
(*                                                                         *)
(* Node runs one callback at a time: an action of this model is the code   *)
(* that runs between two awaits of one request.  The store, the partner    *)
(* API and the commerce platform answer (or fail) nondeterministically.    *)
(***************************************************************************)
EXTENDS Integers, Sequences, FiniteSets, TLC

\* ------------------------------------------------------------------ bounds

\* Number of webhook requests the model delivers.
MaxReqs == 2

\* Resolution of the model of Math.random(): it returns u / RandDen, 0 <= u < RandDen.
RandDen == 10

\* Largest maxAttempts argument retryOperation is called with.
MaxTries == 4

Reqs == 1..MaxReqs

\* ------------------------------------------------------------- input values

Undefined == "undefined"
Null == "null"

\* product ids as item.product_id.toString() prints them (they exceed 32 bits)
ProductA == "9805574340930"
ProductB == "9845248131394"
ProductOther == "1111111111111"

\* an optional JSON field: absent, or present with a value
Absent == << >>
Present(v) == << v >>
ValueOf(field) == field[1]

\* webhookData.id: absent, or a number
IdValues == { Absent, Present(0), Present(1) }

\* webhookData.line_items: absent, or a list of product ids (null for a custom item)
LineItemLists ==
    { Absent,
      Present(<< >>),
      Present(<< ProductOther >>),
      Present(<< ProductOther, Null >>),
      Present(<< Null, ProductB, ProductA >>),
      Present(<< ProductA, Null >>),
      Present(<< ProductOther, ProductB, ProductA >>) }

\* req.body: bytes that do not parse as JSON, or a JSON order object
MalformedBody == [json |-> FALSE, id |-> Absent, test |-> FALSE, line_items |-> Absent]

JsonBodies == [json : {TRUE}, id : IdValues, test : BOOLEAN, line_items : LineItemLists]

\* the values of Math.random() the model draws: the two ends of [0, 1)
RandomDraws == {0, RandDen - 1}

\* ------------------------------------------------------------ pure functions

DigitChars == << "0", "1", "2", "3", "4", "5", "6", "7", "8", "9" >>

RECURSIVE NumberToString(_)
\* Number.prototype.toString / template-literal conversion of a non-negative integer
NumberToString(n) ==
    IF n < 10 THEN << DigitChars[n + 1] >>
    ELSE Append(NumberToString(n \div 10), DigitChars[(n % 10) + 1])

\* crypto.createHmac('sha256', secret).update(body).digest('base64'): a keyed
\* digest, modelled as an injective tag of the body
Hmac(body) == << "hmac-sha256", body >>

NoHeader == << >>

\* the digest of a body that differs from the one delivered
TamperedHmac == Hmac([MalformedBody EXCEPT !.test = TRUE])

verifyShopifyWebhook(r) ==
    LET hmacHeader == r.hmac
    IN  IF hmacHeader = NoHeader THEN FALSE
        ELSE hmacHeader = Hmac(r.body)

ValidProducts == { ProductA, ProductB }

getCodePrefix(productId) ==
    CASE productId = ProductA -> "A"
      [] productId = ProductB -> "B"
      [] OTHER -> Null

RECURSIVE SomeFrom(_, _)
\* line_items.some(item => [...].includes(item.product_id.toString())):
\* "true", "false", or "throws" when it reaches an item whose product_id is null
SomeFrom(items, i) ==
    IF i > Len(items) THEN "false"
    ELSE IF items[i] = Null THEN "throws"
    ELSE IF items[i] \in ValidProducts THEN "true"
    ELSE SomeFrom(items, i + 1)

\* mutant: any line item makes the order eligible
hasValidProductAnyItem(lineItems) ==
    IF lineItems = Absent THEN "false"
    ELSE IF ValueOf(lineItems) = << >> THEN "false"
    ELSE IF ValueOf(lineItems)[1] = Null THEN "throws"
    ELSE "true"

\* webhookData.line_items?.some(...): undefined (falsy) when line_items is absent
hasValidProduct(lineItems) ==
    IF lineItems = Absent THEN "false" ELSE SomeFrom(ValueOf(lineItems), 1)

RECURSIVE FindFrom(_, _)
\* line_items.find(...) with the same test: the first qualifying item
FindFrom(items, i) ==
    IF i > Len(items) THEN Undefined
    ELSE IF items[i] \in ValidProducts THEN items[i]
    ELSE FindFrom(items, i + 1)

matchingItem(lineItems) == FindFrom(ValueOf(lineItems), 1)

\* the bodies delivered to a variant: the fields its handler does not use are
\* held fixed (test in variant 2, line_items in variant 1 and next to an absent
\* id, the value of the id of an order that variant 2 skips)
WebhookBodies(v) ==
    { MalformedBody } \cup
    { b \in JsonBodies :
        /\ v = 1 => b.line_items = Present(<< ProductA, Null >>)
        /\ v = 2 => ~b.test
        /\ b.id = Absent => b.line_items = Present(<< ProductA, Null >>)
        /\ (v = 2 /\ hasValidProduct(b.line_items) # "true") => b.id # Present(1) }

\* Math.floor(10000000 + Math.random() * 90000000) with Math.random() = u / RandDen
CodeBase == 10000000
CodeSpan == 90000000

\* mutant: the draw is scaled over nine digits
RandomNumberWide(u) == CodeBase + ((u * 100000000) \div RandDen)

RandomNumber(u) == CodeBase + ((u * CodeSpan) \div RandDen)

\* `${prefix}${number}`
MakeCode(prefix, u) == << prefix >> \o NumberToString(RandomNumber(u))

\* mutant: the note is the bare code
MakeNoteBare(code) == code

\* `Verification Code: ${code}`
MakeNote(code) == << "Verification Code: " >> \o code

\* JSON.stringify({ "membership_code": code }), the body posted to the partner
PartnerPayload(code) == [membership_code |-> code]

\* webhookData.id?.toString()
OrderIdOf(body) == IF body.id = Absent THEN Absent ELSE NumberToString(ValueOf(body.id))

\* ------------------------------------------------------------------- state

VARIABLES
    variant,          \* 1 or 2: which variant of src/index.js is deployed
    codesCollection,  \* variant 2: Undefined until connectToMongoDB succeeded
    store,            \* the documents of the codes collection, in insertion order
    partnerInbox,     \* the request bodies the partner API has received
    orderNote,        \* the note of each order on the commerce platform
    keepAlive,        \* variant 1: the requests whose setInterval is running
    pc,               \* where each request's handler is
    req,              \* each request: its signature header and raw body
    code,             \* the code held by each request's pipeline
    log,              \* the pipeline events of each request, in order
    status,           \* the HTTP statuses sent for each request, in order
    retry             \* variant 1: the state of a call of retryOperation

\* the state of the webhook service
serviceVars == << variant, codesCollection, store, partnerInbox, orderNote,
                  keepAlive, pc, req, code, log, status >>

vars == << serviceVars, retry >>

\* no call of retryOperation has been made: no handler makes one
NoRetry ==
    [phase |-> "idle", arg |-> Absent, maxAttempts |-> 0, attempt |-> 0,
     invoked |-> 0, errors |-> << >>, timers |-> << >>,
     result |-> Undefined, error |-> Undefined]

NoCode == << >>
NoNote == << >>

OrderIds == { NumberToString(ValueOf(i)) : i \in IdValues \ { Absent } }

NoRequest == [hmac |-> NoHeader, body |-> MalformedBody]

\* the X-Shopify-Hmac-Sha256 headers a delivery of `body` can carry
HmacHeaders(body) == { NoHeader, TamperedHmac, Hmac(body) }

\* the deliveries of the commerce platform, which signs every body it sends
SignedDeliveries(v) == { [hmac |-> Hmac(b), body |-> b] : b \in WebhookBodies(v) }

\* the deliveries anyone can post to the endpoint
AnyDeliveries(v) ==
    UNION { { [hmac |-> h, body |-> b] : h \in HmacHeaders(b) } : b \in WebhookBodies(v) }

orderId(r) == OrderIdOf(req[r].body)

Init ==
    /\ variant \in {1, 2}
    /\ codesCollection = Undefined
    /\ store = << >>
    /\ partnerInbox = {}
    /\ orderNote = [o \in OrderIds |-> NoNote]
    /\ keepAlive = {}
    /\ pc = [r \in Reqs |-> "idle"]
    /\ req = [r \in Reqs |-> NoRequest]
    /\ code = [r \in Reqs |-> NoCode]
    /\ log = [r \in Reqs |-> << >>]
    /\ status = [r \in Reqs |-> << >>]
    /\ retry = NoRetry

\* res.status(s).send(...) and the handler returns, after logging `events`
Respond(r, s, events) ==
    /\ status' = [status EXCEPT ![r] = Append(@, s)]
    /\ log' = [log EXCEPT ![r] = @ \o events]
    /\ pc' = [pc EXCEPT ![r] = "done"]

\* the handler moves to its next await, after logging `events`
Await(r, at, events) ==
    /\ pc' = [pc EXCEPT ![r] = at]
    /\ log' = [log EXCEPT ![r] = @ \o events]
    /\ UNCHANGED status

\* ---------------------------------------------------------------- variant 2

\* mutant: the error is logged and the pipeline goes on to the annotation
processOrderCatchContinue(r, event) == Await(r, "annotate", << event >>)

\* mutant: the error is not caught and the process exits
processOrderCatchExit(r, event) ==
    /\ log' = [log EXCEPT ![r] = Append(@, event)]
    /\ pc' = [q \in Reqs |-> "exited"]
    /\ UNCHANGED status

\* mutant: the error escapes processOrder and the handler answers 500
processOrderRethrow(r, event) == Respond(r, 500, << event >>)

\* processOrder's catch: the error is logged, processOrder returns, and the
\* handler answers 200
processOrderCatch(r, event) == Respond(r, 200, << event >>)

\* mutant: the record is inserted before the partner is told the code
sendCodeAfterInsert(r) == Await(r, "insertOne", << "generated", "insertCall" >>)

\* processOrder has its code and calls sendCodeToComicsLounge(code)
sendCodeToComicsLounge(r) == Await(r, "partner", << "generated", "partnerCall" >>)

\* mutant: the record is not inserted before the order is annotated
insertOneSkipped(r) == Await(r, "annotate", << "notified", "annotateCall" >>)

\* the partner has answered and processOrder calls codesCollection.insertOne
insertOne(r) == Await(r, "insertOne", << "notified", "insertCall" >>)

\* the record is inserted and processOrder calls updateOrderWithNote(orderId, note)
updateOrderWithNote(r) == Await(r, "annotate", << "persisted", "annotateCall" >>)

\* generateUniqueCode up to its await: draw a code and ask the store for it.
\* codesCollection.findOne throws at once when the collection was never set.
generateUniqueCode(r, prefix, u, collection) ==
    IF collection = Undefined
    THEN processOrderCatch(r, "generateFailed") /\ UNCHANGED code
    ELSE /\ code' = [code EXCEPT ![r] = MakeCode(prefix, u)]
         /\ Await(r, "findOne", << >>)

\* processOrder up to its first await
processOrder(r, body, u, collection) ==
    LET valid == hasValidProduct(body.line_items)
    IN  CASE valid = "throws" -> processOrderCatch(r, "itemError") /\ UNCHANGED code
          [] valid = "false" -> Respond(r, 200, << "skipped" >>) /\ UNCHANGED code
          [] OTHER ->
               generateUniqueCode(r, getCodePrefix(matchingItem(body.line_items)),
                                  u, collection)

\* mutant: the handler does not look for the order identifier
ordersCreateNoIdCheck(r, body, u, collection) ==
    IF ~body.json
    THEN Respond(r, 500, << "parseError" >>) /\ UNCHANGED code
    ELSE processOrder(r, body, u, collection)

\* app.post('/webhook/orders-create') of variant 2 up to its first await
ordersCreate(r, body, u, collection) ==
    IF ~body.json
    THEN Respond(r, 500, << "parseError" >>) /\ UNCHANGED code
    ELSE IF OrderIdOf(body) = Absent
    THEN Respond(r, 400, << "noOrderId" >>) /\ UNCHANGED code
    ELSE processOrder(r, body, u, collection)

\* A webhook arrives.  The connection middleware runs first: with a connected
\* client it calls next() at once, otherwise it awaits connectToMongoDB.
Arrive(r, deliveries) ==
    /\ variant = 2
    /\ pc[r] = "idle"
    /\ \A q \in Reqs : q < r => pc[q] # "idle"
    /\ \E d \in deliveries, u \in RandomDraws :
         /\ req' = [req EXCEPT ![r] = d]
         /\ IF codesCollection = Undefined
            THEN Await(r, "connect", << >>) /\ UNCHANGED code
            ELSE ordersCreate(r, d.body, u, codesCollection)
    /\ UNCHANGED << retry, variant, codesCollection, store, partnerInbox, orderNote, keepAlive >>

\* connectToMongoDB returns: the collection handle is set on success, the error
\* is logged on failure; either way next() runs the handler.
connectToMongoDB(r) ==
    /\ variant = 2
    /\ pc[r] = "connect"
    /\ \E ok \in BOOLEAN, u \in RandomDraws :
         /\ codesCollection' = IF ok THEN "codes" ELSE codesCollection
         /\ ordersCreate(r, req[r].body, u, codesCollection')
    /\ UNCHANGED << retry, variant, store, partnerInbox, orderNote, keepAlive, req >>

\* mutant: the existence check always answers absent
findOneAbsent(c) == FALSE

\* codesCollection.findOne({ code }) of the document store
findOne(c) == \E i \in 1..Len(store) : store[i].code = c

\* findOne returns inside generateUniqueCode's loop: an error ends processOrder
\* in its catch; a hit draws again; a miss returns the code, and processOrder
\* calls sendCodeToComicsLounge
findOneReturn(r) ==
    /\ variant = 2
    /\ pc[r] = "findOne"
    /\ \/ processOrderCatch(r, "generateFailed") /\ UNCHANGED code
       \/ /\ findOne(code[r])
          /\ \E u \in RandomDraws :
               generateUniqueCode(r, getCodePrefix(matchingItem(req[r].body.line_items)),
                                  u, codesCollection)
       \/ /\ ~findOne(code[r])
          /\ sendCodeToComicsLounge(r)
          /\ UNCHANGED code
    /\ UNCHANGED << retry, variant, codesCollection, store, partnerInbox, orderNote, keepAlive, req >>

\* what can come back from the partner API: a response with a success status,
\* one with an error status (whatever its body), or no response at all (the
\* request emits 'error')
PartnerAnswers == { "status200", "status500", "requestError" }

\* mutant: only a response with a success status resolves
sendCodeResponseChecked(answer) ==
    IF answer = "status200" THEN "resolved" ELSE "rejected"

\* the promise of sendCodeToComicsLounge: res.on('end') resolves with the raw
\* body, whatever the status; req.on('error') rejects
sendCodeResponse(answer) ==
    IF answer = "requestError" THEN "rejected" ELSE "resolved"

\* sendCodeToComicsLounge settles.  A partner that answered has received the
\* request body.  processOrder then calls insertOne, or ends in its catch.
sendCodeToComicsLoungeReturn(r) ==
    /\ variant = 2
    /\ pc[r] = "partner"
    /\ \E answer \in PartnerAnswers :
         /\ partnerInbox' = IF answer = "requestError"
                            THEN partnerInbox
                            ELSE partnerInbox \cup { PartnerPayload(code[r]) }
         /\ IF sendCodeResponse(answer) = "resolved"
            THEN insertOne(r)
            ELSE processOrderCatch(r, "partnerFailed")
    /\ UNCHANGED << retry, variant, codesCollection, store, orderNote, keepAlive, req, code >>

\* codesCollection.insertOne({ orderId, code }) returns; processOrder then
\* calls updateOrderWithNote
insertOneReturn(r) ==
    /\ variant = 2
    /\ pc[r] = "insertOne"
    /\ \/ /\ store' = Append(store, [orderId |-> orderId(r), code |-> code[r]])
          /\ updateOrderWithNote(r)
       \/ /\ processOrderCatch(r, "insertFailed")
          /\ UNCHANGED store
    /\ UNCHANGED << retry, variant, codesCollection, partnerInbox, orderNote, keepAlive, req, code >>

\* what the commerce platform can answer to the orderUpdate mutation
PlatformAnswers == { "note", "noNote", "notJson", "requestError" }

\* the promise of updateOrderWithNote (variant 2): resolved when the response
\* parses and echoes a note, rejected otherwise
orderUpdateResponse(answer) == IF answer = "note" THEN "resolved" ELSE "rejected"

\* updateOrderWithNote settles; processOrder logs and returns, and the handler
\* answers 200
updateOrderWithNoteReturn(r) ==
    /\ variant = 2
    /\ pc[r] = "annotate"
    /\ \E answer \in PlatformAnswers :
         /\ orderNote' = IF answer = "note"
                         THEN [orderNote EXCEPT ![orderId(r)] = MakeNote(code[r])]
                         ELSE orderNote
         /\ IF orderUpdateResponse(answer) = "resolved"
            THEN Respond(r, 200, << "annotated", "processed" >>)
            ELSE processOrderCatch(r, "annotateFailed")
    /\ UNCHANGED << retry, variant, codesCollection, store, partnerInbox, keepAlive, req, code >>

\* ---------------------------------------------------------------- variant 1

\* app.post('/webhook/orders-create') of variant 1 up to its await: answer 200,
\* parse, skip a test webhook or one without id, start the keep-alive interval
\* and call updateOrderWithNote with a freshly drawn note
ordersCreate1(r, deliveries) ==
    /\ variant = 1
    /\ pc[r] = "idle"
    /\ \A q \in Reqs : q < r => pc[q] # "idle"
    /\ \E d \in deliveries, u \in RandomDraws :
         LET body == d.body
         IN  /\ req' = [req EXCEPT ![r] = d]
             /\ status' = [status EXCEPT ![r] = Append(@, 200)]
             /\ IF ~body.json \/ body.test \/ OrderIdOf(body) = Absent
                THEN /\ pc' = [pc EXCEPT ![r] = "done"]
                     /\ log' = [log EXCEPT ![r] =
                                  @ \o << IF ~body.json THEN "parseError"
                                          ELSE IF body.test THEN "skippedTest"
                                          ELSE "noOrderId" >>]
                     /\ UNCHANGED << keepAlive, code >>
                ELSE /\ keepAlive' = keepAlive \cup { r }
                     /\ code' = [code EXCEPT ![r] = MakeCode("A", u)]
                     /\ pc' = [pc EXCEPT ![r] = "annotate1"]
                     /\ log' = [log EXCEPT ![r] = @ \o << "generated", "annotateCall" >>]
    /\ UNCHANGED << retry, variant, codesCollection, store, partnerInbox, orderNote >>

\* mutant: the interval is left running when the annotation fails
writeAfterEndNoClear(r) ==
    /\ variant = 1
    /\ pc[r] = "annotate1"
    /\ pc' = [pc EXCEPT ![r] = "sent1"]
    /\ log' = [log EXCEPT ![r] = Append(@, "annotateFailed")]
    /\ UNCHANGED << retry, variant, codesCollection, store, partnerInbox, orderNote,
                    keepAlive, req, code, status >>

\* updateOrderWithNote of variant 1 calls req.end(requestBody) and then
\* req.write(requestBody, cb): the write after end makes the request emit
\* 'error' on the next tick, which rejects the promise before any response.
\* The handler's finally clears the interval and its catch logs the error.
writeAfterEnd(r) ==
    /\ variant = 1
    /\ pc[r] = "annotate1"
    /\ keepAlive' = keepAlive \ { r }
    /\ pc' = [pc EXCEPT ![r] = "sent1"]
    /\ log' = [log EXCEPT ![r] = Append(@, "annotateFailed")]
    /\ UNCHANGED << retry, variant, codesCollection, store, partnerInbox, orderNote,
                    req, code, status >>

\* the mutation sent by req.end(requestBody) is answered; the promise is
\* settled already, so resolve and reject have no effect
platformAnswer1(r) ==
    /\ variant = 1
    /\ pc[r] = "sent1"
    /\ \E answer \in PlatformAnswers :
         orderNote' = IF answer = "note"
                      THEN [orderNote EXCEPT ![orderId(r)] = MakeNote(code[r])]
                      ELSE orderNote
    /\ pc' = [pc EXCEPT ![r] = "done"]
    /\ UNCHANGED << retry, variant, codesCollection, store, partnerInbox, keepAlive,
                    req, code, log, status >>

\* ------------------------------------------------------------ retryOperation

\* retryOperation(operation, maxAttempts = 3)
DefaultMaxAttempts == 3

\* setTimeout(resolve, 2000)
RetryDelay == 2000

\* the maxAttempts argument: left out, or a number
RetryArgs == { Absent } \cup { Present(n) : n \in 0..MaxTries }

\* what operation() can resolve with, and what it can reject with
OperationResults == { "result1", "result2" }
OperationErrors == { "error1", "error2" }

\* retryOperation is called: the loop starts at attempt 1 and, if the loop
\* condition holds, invokes the operation
retryOperation(arg) ==
    /\ variant = 1
    /\ retry.phase = "idle"
    /\ LET max == IF arg = Absent THEN DefaultMaxAttempts ELSE ValueOf(arg)
       IN  retry' = IF 1 <= max
                    THEN [retry EXCEPT !.phase = "calling", !.arg = arg,
                                       !.maxAttempts = max, !.attempt = 1,
                                       !.invoked = 1]
                    ELSE [retry EXCEPT !.phase = "returned", !.arg = arg,
                                       !.maxAttempts = max, !.attempt = 1]
    /\ UNCHANGED serviceVars

\* mutant: the catch never rethrows
lastAttemptNever == FALSE

\* attempt === maxAttempts
lastAttempt == retry.attempt = retry.maxAttempts

\* await operation() settles: a result is returned at once; an error is
\* rethrown on the last attempt, and otherwise starts the 2 s timer
operationSettles ==
    /\ retry.phase = "calling"
    /\ \/ \E v \in OperationResults :
            retry' = [retry EXCEPT !.phase = "returned", !.result = v]
       \/ \E e \in OperationErrors :
            retry' = IF lastAttempt
                     THEN [retry EXCEPT !.phase = "thrown", !.error = e,
                                        !.errors = Append(@, e)]
                     ELSE [retry EXCEPT !.phase = "waiting",
                                        !.errors = Append(@, e),
                                        !.timers = Append(@, RetryDelay)]
    /\ UNCHANGED serviceVars

\* the timer fires: attempt++, and the loop invokes the operation again while
\* attempt <= maxAttempts; past it the function returns undefined
setTimeoutFires ==
    /\ retry.phase = "waiting"
    /\ retry' = IF retry.attempt + 1 <= retry.maxAttempts
                THEN [retry EXCEPT !.phase = "calling", !.attempt = @ + 1,
                                   !.invoked = @ + 1]
                ELSE [retry EXCEPT !.phase = "returned", !.attempt = @ + 1]
    /\ UNCHANGED serviceVars

NextRetry ==
    \/ \E arg \in RetryArgs : retryOperation(arg)
    \/ operationSettles
    \/ setTimeoutFires

InitRetry == Init /\ variant = 1

\* retryOperation called on its own, with any operation and any maxAttempts
SpecRetry == InitRetry /\ [][NextRetry]_vars

\* ------------------------------------------------------------ specification

\* the steps every request takes once it has arrived
Step(r) ==
    \/ connectToMongoDB(r)
    \/ findOneReturn(r)
    \/ sendCodeToComicsLoungeReturn(r)
    \/ insertOneReturn(r)
    \/ updateOrderWithNoteReturn(r)
    \/ writeAfterEnd(r)
    \/ platformAnswer1(r)

\* the service under the deliveries of the commerce platform
Next ==
    \E r \in Reqs :
        \/ Arrive(r, SignedDeliveries(2))
        \/ ordersCreate1(r, SignedDeliveries(1))
        \/ Step(r)

Spec == Init /\ [][Next]_vars

\* the service under deliveries with any signature header
NextUnsigned ==
    \E r \in Reqs :
        \/ Arrive(r, AnyDeliveries(2))
        \/ ordersCreate1(r, AnyDeliveries(1))
        \/ Step(r)

SpecUnsigned == Init /\ [][NextUnsigned]_vars

\* ------------------------------------------------- fairness for liveness

\* What the runtime guarantees: a callback that is ready runs.  The MongoDB
\* driver bounds its waits (server selection and connect time out), and the
\* next-tick error of variant 1 is always delivered.  The https requests to the
\* partner and to the commerce platform carry no timeout, so nothing makes
\* them settle.
Fairness ==
    \A r \in Reqs :
        /\ WF_vars(connectToMongoDB(r))
        /\ WF_vars(findOneReturn(r))
        /\ WF_vars(insertOneReturn(r))
        /\ WF_vars(writeAfterEnd(r))

SpecLive == Spec /\ Fairness

\* ------------------------------------------- the code generator under load

\* the deliveries for which the handler draws a code: a JSON order with an
\* identifier, not a test, and for variant 2 a qualifying line item; variant 1,
\* which does not read the line items, gets an order whose first qualifying
\* product maps to A, one where it maps to B, and one without any
CodeDeliveries(v) ==
    { [hmac |-> Hmac(b), body |-> b] :
        b \in { b \in JsonBodies :
                  /\ b.id = Present(0)
                  /\ ~b.test
                  /\ v = 2 => hasValidProduct(b.line_items) = "true"
                  /\ v = 1 => b.line_items \in
                               { Present(<< ProductA, Null >>),
                                 Present(<< ProductOther, ProductB, ProductA >>),
                                 Present(<< ProductOther >>) } } }

NextCodes ==
    \E r \in Reqs :
        \/ Arrive(r, CodeDeliveries(2))
        \/ ordersCreate1(r, CodeDeliveries(1))
        \/ Step(r)

\* the loop of generateUniqueCode draws again and reaches a code the store
\* does not hold
redrawUnused(r) ==
    /\ findOneReturn(r)
    /\ pc'[r] = "findOne"
    /\ \A i \in 1..Len(store) : store[i].code # code'[r]

\* Math.random() is fair: a draw that stays possible is eventually made
FairDraws == \A r \in Reqs : SF_vars(redrawUnused(r))

SpecCodes == Init /\ [][NextCodes]_vars /\ Fairness /\ FairDraws

\* ------------------------------------------------------- claim vocabulary

Arrived(r) == pc[r] # "idle"

Events(r) == { log[r][i] : i \in 1..Len(log[r]) }

\* event a is logged for r before event b
Before(r, a, b) ==
    \E j \in 1..Len(log[r]) :
        log[r][j] = b /\ \E i \in 1..(j - 1) : log[r][i] = a

LastEvent(r) == IF log[r] = << >> THEN "none" ELSE log[r][Len(log[r])]

\* the outbound calls and store writes a request's pipeline can make
EffectEvents ==
    { "generated", "partnerCall", "notified", "insertCall", "persisted",
      "annotateCall", "annotated" }

NoEffects(r) == Events(r) \cap EffectEvents = {} /\ code[r] = NoCode

InStore(o, c) == \E i \in 1..Len(store) : store[i] = [orderId |-> o, code |-> c]

\* no line item carries a qualifying product id
NoQualifyingItem(body) ==
    \/ body.line_items = Absent
    \/ \A i \in 1..Len(ValueOf(body.line_items)) :
         ValueOf(body.line_items)[i] \notin ValidProducts

\* nothing has been written to the store, the partner or any order
NothingWritten ==
    /\ store = << >>
    /\ partnerInbox = {}
    /\ \A o \in OrderIds : orderNote[o] = NoNote

\* ------------------------------------------------------------------ claims

\* C1 (as claimed): no two documents of the codes collection hold the same
\* code, under any interleaving of the requests.
C1_UniqueCodes ==
    \A i, j \in 1..Len(store) : i # j => store[i].code # store[j].code

\* C2 (as claimed): the partner is notified of a code only after the record
\* of that code was inserted, and the order is annotated only after the
\* partner was notified.
C2_PersistedBeforeNotified ==
    \A r \in Reqs :
        /\ "notified" \in Events(r) => Before(r, "persisted", "notified")
        /\ "annotated" \in Events(r) => Before(r, "notified", "annotated")

\* C2 (amended): the steps of an eligible order happen in the order
\* CodeGenerated, PartnerNotified, CodePersisted, OrderAnnotated: the record is
\* inserted only after the partner was notified of its code, and the order is
\* annotated only after the record was inserted.
C2_PipelineOrder ==
    \A r \in Reqs :
        variant = 2 =>
            /\ "notified" \in Events(r) =>
                 Before(r, "generated", "notified") /\ PartnerPayload(code[r]) \in partnerInbox
            /\ "persisted" \in Events(r) =>
                 Before(r, "notified", "persisted") /\ InStore(orderId(r), code[r])
            /\ "annotated" \in Events(r) => Before(r, "persisted", "annotated")

\* C2 witness: a pipeline that went through all four steps
C2_Witness ==
    \E r \in Reqs :
        /\ variant = 2
        /\ "processed" \in Events(r)
        /\ orderNote[orderId(r)] = MakeNote(code[r])

\* C3 (as claimed): the store holds at most one record per order reference,
\* and exactly one for an order whose pipeline completed.
C3_OneRecordPerOrder ==
    /\ \A i, j \in 1..Len(store) : i # j => store[i].orderId # store[j].orderId
    /\ \A r \in Reqs :
         "processed" \in Events(r) =>
            Cardinality({ i \in 1..Len(store) : store[i].orderId = orderId(r) }) = 1

\* C4: a webhook with an order id none of whose line items qualifies makes no
\* store write, no partner call and no annotation, and is answered 200.
C4_IneligibleSkipped ==
    /\ \A r \in Reqs :
         ( /\ variant = 2
           /\ Arrived(r)
           /\ req[r].body.json
           /\ orderId(r) # Absent
           /\ NoQualifyingItem(req[r].body) )
         => /\ NoEffects(r)
            /\ pc[r] \in { "connect", "done" }
            /\ pc[r] = "done" => status[r] = << 200 >>
    /\ ( \A r \in Reqs : Arrived(r) => NoQualifyingItem(req[r].body) ) => NothingWritten

\* C4 witness: an order without qualifying item has been answered
C4_Witness ==
    \E r \in Reqs :
        /\ variant = 2
        /\ req[r].body.json
        /\ orderId(r) # Absent
        /\ req[r].body.line_items = Present(<< ProductOther >>)
        /\ pc[r] = "done"
        /\ status[r] = << 200 >>

\* a delivered JSON body without order identifier
NoOrderId(r) == Arrived(r) /\ req[r].body.json /\ orderId(r) = Absent

\* C5 (as claimed): a payload without order identifier is answered 400, and
\* neither the pipeline nor any outbound call or store access runs for it.
C5_NoOrderIdIs400 ==
    \A r \in Reqs :
        (NoOrderId(r) /\ pc[r] = "done") => status[r] = << 400 >> /\ NoEffects(r)

\* C5 (amended): a payload without order identifier never starts the
\* pipeline and causes no read or write of the codes collection and no call to
\* the partner or the commerce platform; variant 2 answers it 400, variant 1,
\* which acknowledges before parsing, has answered it 200.
C5_NoOrderIdNoWork ==
    \A r \in Reqs :
        NoOrderId(r) =>
            /\ NoEffects(r)
            /\ r \notin keepAlive
            /\ pc[r] \in { "connect", "done" }
            /\ pc[r] = "done" =>
                 /\ log[r] = IF variant = 1 /\ req[r].body.test
                             THEN << "skippedTest" >> ELSE << "noOrderId" >>
                 /\ status[r] = IF variant = 2 THEN << 400 >> ELSE << 200 >>
            /\ ( \A q \in Reqs : Arrived(q) => NoOrderId(q) ) => NothingWritten

\* C5 witness: variant 2 has answered 400 to a payload without order identifier
C5_Witness ==
    \E r \in Reqs : variant = 2 /\ NoOrderId(r) /\ status[r] = << 400 >>

\* the request is the only one delivered so far
Alone(r) == \A q \in Reqs \ { r } : ~Arrived(q)

\* C6: when a pipeline step fails, none of the steps after it runs for that
\* order, and what the earlier steps did stays in place.
C6_AbortOnFailure ==
    \A r \in Reqs :
        variant = 2 =>
            /\ "generateFailed" \in Events(r) =>
                 /\ pc[r] = "done"
                 /\ log[r] = << "generateFailed" >>
                 /\ Alone(r) => NothingWritten
            /\ "partnerFailed" \in Events(r) =>
                 /\ pc[r] = "done"
                 /\ log[r] = << "generated", "partnerCall", "partnerFailed" >>
                 /\ Alone(r) => NothingWritten
            /\ "insertFailed" \in Events(r) =>
                 /\ pc[r] = "done"
                 /\ log[r] = << "generated", "partnerCall", "notified", "insertCall",
                                "insertFailed" >>
                 /\ PartnerPayload(code[r]) \in partnerInbox
                 /\ Alone(r) => store = << >> /\ orderNote[orderId(r)] = NoNote
            /\ "annotateFailed" \in Events(r) =>
                 /\ pc[r] = "done"
                 /\ log[r] = << "generated", "partnerCall", "notified", "insertCall",
                                "persisted", "annotateCall", "annotateFailed" >>
                 /\ PartnerPayload(code[r]) \in partnerInbox
                 /\ InStore(orderId(r), code[r])

\* C6 witness: the insert failed after the partner was notified
C6_Witness ==
    \E r \in Reqs :
        /\ variant = 2
        /\ "insertFailed" \in Events(r)
        /\ PartnerPayload(code[r]) \in partnerInbox
        /\ status[r] = << 200 >>

\* C7: when the annotation fails after the insert, the record is still in the
\* store, unchanged, when the pipeline ends, and that run writes no order note.
C7_NoRollback ==
    \A r \in Reqs :
        (variant = 2 /\ "annotateFailed" \in Events(r)) =>
            /\ pc[r] = "done"
            /\ Cardinality({ i \in 1..Len(store) :
                   store[i] = [orderId |-> orderId(r), code |-> code[r]] }) >= 1
            /\ "annotated" \notin Events(r)
            /\ Alone(r) =>
                 /\ store = << [orderId |-> orderId(r), code |-> code[r]] >>
                 /\ orderNote[orderId(r)] = NoNote

\* C7 witness: a pipeline ended on a failed annotation with its record stored
C7_Witness ==
    \E r \in Reqs :
        /\ variant = 2
        /\ LastEvent(r) = "annotateFailed"
        /\ pc[r] = "done"
        /\ InStore(orderId(r), code[r])
        /\ orderNote[orderId(r)] = NoNote

\* C8 (as claimed): every delivered webhook is eventually answered with
\* exactly one HTTP status, whatever the partner, the platform and the store do.
C8_AlwaysAnswered ==
    \A r \in Reqs : Arrived(r) ~> (Len(status[r]) = 1)

\* the events after which processOrder has hit an error
FailureEvents ==
    { "itemError", "generateFailed", "partnerFailed", "insertFailed", "annotateFailed" }

\* C9 (as claimed): the status is 200 exactly when the order was processed or
\* skipped, 400 when there is no order identifier, and 500 when processing hit
\* an error such as a failed store, partner or annotation step.
C9_StatusByOutcome ==
    \A r \in Reqs :
        (variant = 2 /\ pc[r] = "done") =>
            /\ status[r] = << 200 >> <=> LastEvent(r) \in { "processed", "skipped" }
            /\ status[r] = << 400 >> <=> LastEvent(r) = "noOrderId"
            /\ LastEvent(r) \in FailureEvents => status[r] = << 500 >>

\* C9 (amended): the status is 200 exactly when processOrder returned, whether
\* the order was processed, skipped, or a pipeline step failed and was caught
\* inside processOrder; 400 exactly when the parsed payload has no order
\* identifier; 500 exactly when the body does not parse as JSON.
C9_StatusByHandler ==
    \A r \in Reqs :
        (variant = 2 /\ pc[r] = "done") =>
            /\ Len(status[r]) = 1
            /\ status[r] = << 200 >> <=>
                 LastEvent(r) \in { "processed", "skipped" } \cup FailureEvents
            /\ status[r] = << 200 >> <=> (req[r].body.json /\ orderId(r) # Absent)
            /\ status[r] = << 400 >> <=> (req[r].body.json /\ orderId(r) = Absent)
            /\ status[r] = << 500 >> <=> ~req[r].body.json

\* C9 witness: a failed partner step answered 200 next to a rejected payload
C9_Witness ==
    \E r, q \in Reqs :
        /\ variant = 2
        /\ LastEvent(r) = "partnerFailed"
        /\ status[r] = << 200 >>
        /\ status[q] \in { << 400 >>, << 500 >> }

\* C10 (as claimed): for a webhook whose signature header is missing or does
\* not match the HMAC of its body, no code is generated, persisted, sent to the
\* partner or written to the order.
C10_UnverifiedNoEffects ==
    \A r \in Reqs :
        (Arrived(r) /\ ~verifyShopifyWebhook(req[r])) => NoEffects(r)

\* the requests other than r that have annotated the same order
OtherAnnotators(r) ==
    { q \in Reqs \ { r } : orderId(q) = orderId(r) /\ "annotated" \in Events(q) }

\* C11: one pipeline run uses one code value everywhere: the partner receives
\* {"membership_code": code}, the inserted record holds that code with the
\* order reference of the webhook, and the note written on that order is
\* 'Verification Code: ' followed by that code.
C11_SameCodeEverywhere ==
    \A r \in Reqs :
        variant = 2 =>
            /\ "notified" \in Events(r) =>
                 [membership_code |-> code[r]] \in partnerInbox
            /\ "persisted" \in Events(r) =>
                 \E i \in 1..Len(store) :
                    store[i].code = code[r] /\ store[i].orderId = orderId(r)
            /\ ("annotated" \in Events(r) /\ OtherAnnotators(r) = {}) =>
                 orderNote[orderId(r)] = << "Verification Code: " >> \o code[r]
            /\ (Alone(r) /\ "processed" \in Events(r)) =>
                 /\ partnerInbox = { [membership_code |-> code[r]] }
                 /\ store = << [orderId |-> NumberToString(ValueOf(req[r].body.id)),
                               code |-> code[r]] >>
                 /\ \A o \in OrderIds \ { orderId(r) } : orderNote[o] = NoNote

\* C11 witness: a run whose code reached the partner, the store and the order
C11_Witness ==
    \E r \in Reqs :
        /\ variant = 2
        /\ Alone(r)
        /\ "processed" \in Events(r)
        /\ orderNote[orderId(r)] = << "Verification Code: " >> \o code[r]

\* the positions of the qualifying items of r's order
Qualifying(r) ==
    IF req[r] = NoRequest \/ req[r].body.line_items = Absent THEN {}
    ELSE { i \in 1..Len(ValueOf(req[r].body.line_items)) :
             ValueOf(req[r].body.line_items)[i] \in { "9805574340930", "9845248131394" } }

\* the letter of the first qualifying item of r's order, in line-item order
FirstLetter(r) ==
    LET first == CHOOSE i \in Qualifying(r) : \A j \in Qualifying(r) : i <= j
    IN  IF ValueOf(req[r].body.line_items)[first] = "9805574340930" THEN "A" ELSE "B"

\* a call to the store, the partner or the platform failed
RemoteFailures == { "generateFailed", "partnerFailed", "insertFailed", "annotateFailed" }

\* C12: an order with several qualifying line items gets exactly one code, and
\* the code's prefix is the letter of the first qualifying item in line-item
\* order (checked on runs in which no store, partner or platform call failed).
C12_OneCodeFirstItem ==
    \A r \in Reqs :
        ( /\ variant = 2
          /\ pc[r] = "done"
          /\ req[r].body.id # Absent
          /\ Cardinality(Qualifying(r)) >= 2
          /\ Events(r) \cap RemoteFailures = {} )
        => /\ "processed" \in Events(r)
           /\ code[r] # NoCode
           /\ Head(code[r]) = FirstLetter(r)
           /\ Cardinality({ i \in 1..Len(log[r]) : log[r][i] = "generated" }) = 1

\* how often the event e was logged for request r
Count(r, e) == Cardinality({ i \in 1..Len(log[r]) : log[r][i] = e })

\* C13: the annotation call resolves exactly when the platform's response
\* parses and echoes a non-empty note (the platform then holds that note on the
\* order), rejects otherwise, and settles exactly once.
C13_ResolvesIffNoteEchoed ==
    \A r \in Reqs :
        (Alone(r) /\ pc[r] = "done" /\ "annotateCall" \in Events(r))
        => /\ "annotated" \in Events(r)
                <=> orderNote[orderId(r)] = << "Verification Code: " >> \o code[r]
           /\ Count(r, "annotated") + Count(r, "annotateFailed") = 1

\* a record of the store holds the code c
CodeUsed(c) == \E i \in 1..Len(store) : store[i].code = c

\* every code generateUniqueCode can draw for r's order is in the store
AllCodesUsed(r) ==
    \A u \in RandomDraws :
        CodeUsed(<< FirstLetter(r) >> \o NumberToString(RandomNumber(u)))

\* C14: generateUniqueCode returns only a code the store does not hold, draws
\* again on every collision, ends in processOrder's catch when the existence
\* check fails, and, while some code of the prefix is unused and draws are
\* fair, eventually ends.
C14_GenerateTerminates ==
    /\ [][\A r \in Reqs :
            /\ (pc[r] = "findOne" /\ pc'[r] = "partner")
                 => ~CodeUsed(code[r]) /\ code'[r] = code[r]
            /\ (pc[r] = "findOne" /\ CodeUsed(code[r]) /\ pc'[r] # "findOne")
                 => pc'[r] = "done" /\ LastEvent(r)' = "generateFailed"
            /\ (pc[r] = "findOne" /\ LastEvent(r)' = "generateFailed")
                 => pc'[r] = "done" /\ "generated" \notin Events(r)']_vars
    /\ \A r \in Reqs :
         (pc[r] = "findOne") ~> (pc[r] # "findOne" \/ AllCodesUsed(r))

\* C14 witness: the existence check is about to answer 'present' for the code
\* just drawn, while another code of the prefix is unused
C14_Witness ==
    \E r \in Reqs :
        /\ pc[r] = "findOne"
        /\ CodeUsed(code[r])
        /\ ~AllCodesUsed(r)

UpperLetters ==
    { "A", "B", "C", "D", "E", "F", "G", "H", "I", "J", "K", "L", "M",
      "N", "O", "P", "Q", "R", "S", "T", "U", "V", "W", "X", "Y", "Z" }

Digits == { "0", "1", "2", "3", "4", "5", "6", "7", "8", "9" }

\* the value of one decimal digit
DigitValue(ch) == CHOOSE n \in 0..9 : NumberToString(n) = << ch >>

RECURSIVE DecimalValue(_)
\* the number a string of decimal digits denotes
DecimalValue(digits) ==
    IF digits = << >> THEN 0
    ELSE 10 * DecimalValue(SubSeq(digits, 1, Len(digits) - 1))
           + DigitValue(digits[Len(digits)])

\* one uppercase letter followed by exactly 8 decimal digits that denote a
\* number of [10000000, 99999999]
WellFormedCode(c) ==
    /\ Len(c) = 9
    /\ c[1] \in UpperLetters
    /\ \A i \in 2..9 : c[i] \in Digits
    /\ DecimalValue(Tail(c)) >= 10000000
    /\ DecimalValue(Tail(c)) <= 99999999

\* every value of Math.random() at the model's resolution
AllDraws == 0..(RandDen - 1)

\* for every draw and every mapped letter, the code made is the letter followed
\* by the 8 digits of the number drawn
EveryDrawWellFormed ==
    \A u \in AllDraws :
        \A letter \in { "A", "B" } :
            LET c == MakeCode(letter, u)
            IN  /\ WellFormedCode(c)
                /\ Head(c) = letter
                /\ DecimalValue(Tail(c)) = 10000000 + ((u * 90000000) \div RandDen)

\* C15 as stated: every generated code is one uppercase letter and 8 digits
\* in [10000000, 99999999], and the letter is the one mapped to the order's
\* qualifying product.
C15_CodeFormat ==
    /\ EveryDrawWellFormed
    /\ \A r \in Reqs :
         code[r] # NoCode =>
            /\ WellFormedCode(code[r])
            /\ Qualifying(r) # {}
            /\ Head(code[r]) = FirstLetter(r)

\* C15, amended: every generated code is one uppercase letter and 8 digits in
\* [10000000, 99999999] for every draw; in variant 2 the letter is the one
\* mapped to the first qualifying product of the order, and variant 1 always
\* writes the letter A, whatever the order's line items are.
C15_CodeFormatByVariant ==
    /\ EveryDrawWellFormed
    /\ \A r \in Reqs :
         code[r] # NoCode =>
            /\ WellFormedCode(code[r])
            /\ variant = 2 => Qualifying(r) # {} /\ Head(code[r]) = FirstLetter(r)
            /\ variant = 1 => Head(code[r]) = "A"

\* C15 witness: variant 1 wrote a code with the letter A for an order whose
\* first qualifying product maps to B
C15_Witness ==
    \E r \in Reqs :
        /\ variant = 1
        /\ code[r] # NoCode
        /\ WellFormedCode(code[r])
        /\ Qualifying(r) # {}
        /\ FirstLetter(r) = "B"
        /\ Head(code[r]) = "A"

\* the next step of q's run can be taken, and it can be the successful one
CanGoOn(q) ==
    /\ (pc[q] = "idle" /\ \A p \in Reqs : p < q => pc[p] # "idle") =>
            ENABLED (Arrive(q, CodeDeliveries(2)) \/ ordersCreate1(q, CodeDeliveries(1)))
    /\ pc[q] = "connect" =>
         ENABLED (connectToMongoDB(q) /\ codesCollection' # Undefined)
    /\ pc[q] = "findOne" =>
         ENABLED (findOneReturn(q) /\ pc'[q] \in { "findOne", "partner" })
    /\ pc[q] = "partner" =>
         ENABLED (sendCodeToComicsLoungeReturn(q) /\ pc'[q] = "insertOne")
    /\ pc[q] = "insertOne" =>
         ENABLED (insertOneReturn(q) /\ pc'[q] = "annotate")
    /\ pc[q] = "annotate" =>
         ENABLED (updateOrderWithNoteReturn(q) /\ "annotated" \in Events(q)')
    /\ pc[q] = "annotate1" => ENABLED writeAfterEnd(q)
    /\ pc[q] = "sent1" =>
         ENABLED (platformAnswer1(q) /\ orderNote'[orderId(q)] # NoNote)
    /\ pc[q] \in { "idle", "connect", "findOne", "partner", "insertOne",
                   "annotate", "annotate1", "sent1", "done" }

\* C16: a failed run does not keep later webhooks from being served: the run
\* that hit the error has ended with its error logged and its response sent,
\* and every other webhook can still arrive and take each of its steps up to
\* the annotation of its order.
C16_FailureDoesNotBlock ==
    \A r \in Reqs :
        Events(r) \cap FailureEvents # {} =>
            /\ pc[r] \in { "done", "sent1" }
            /\ status[r] = << 200 >>
            /\ \A q \in Reqs \ { r } : CanGoOn(q)

\* C16 witness: the first webhook's run failed and the webhook after it had
\* its order annotated
C16_Witness ==
    \E r, q \in Reqs :
        /\ r < q
        /\ variant = 2
        /\ pc[r] = "done"
        /\ Events(r) \cap FailureEvents # {}
        /\ "processed" \in Events(q)
        /\ orderNote[orderId(q)] = << "Verification Code: " >> \o code[q]

\* C17: retryOperation invokes the operation at most maxAttempts times (3 when
\* the argument is left out), returns the result of the first success without
\* invoking it again, waits 2000 ms between a failed attempt and the next, and
\* after maxAttempts failures throws the error of the last attempt.
C17_RetryBounded ==
    LET max == IF retry.arg = Absent THEN 3 ELSE retry.arg[1]
        failed == Len(retry.errors)
    IN  retry.phase # "idle" =>
          /\ retry.invoked <= max
          /\ retry.phase = "calling" => retry.invoked = failed + 1
          /\ retry.phase = "waiting" => retry.invoked = failed /\ failed < max
          /\ retry.phase = "returned" =>
               IF max = 0
               THEN retry.invoked = 0
               ELSE /\ retry.invoked = failed + 1
                    /\ retry.result \in { "result1", "result2" }
                    /\ retry.error = "undefined"
          /\ retry.phase = "thrown" =>
               /\ retry.invoked = max
               /\ failed = max
               /\ retry.error = retry.errors[max]
               /\ retry.result = "undefined"
          /\ Len(retry.timers) = (IF retry.phase = "thrown" THEN failed - 1 ELSE failed)
          /\ \A i \in 1..Len(retry.timers) : retry.timers[i] = 2000
          /\ retry.phase \in { "calling", "waiting", "returned", "thrown" }

\* C17 witness: called without maxAttempts, the operation failed three times:
\* two waits of 2000 ms, and the third error is thrown
C17_Witness ==
    /\ retry.phase = "thrown"
    /\ retry.arg = Absent
    /\ retry.invoked = 3
    /\ retry.errors = << "error1", "error1", "error2" >>
    /\ retry.error = "error2"
    /\ retry.timers = << 2000, 2000 >>

\* C18: a run makes one request to the partner and never a second one; a
\* connection error rejects and ends the run before the insert; any response
\* the partner sends, whatever its status or body, counts as success.
C18_PartnerOnceNoRetry ==
    /\ \A answer \in PartnerAnswers :
         sendCodeResponse(answer) = "resolved" <=> answer # "requestError"
    /\ \A r \in Reqs :
         variant = 2 =>
            /\ Count(r, "partnerCall") <= 1
            /\ "partnerFailed" \in Events(r) =>
                 /\ Count(r, "partnerCall") = 1
                 /\ pc[r] = "done"
                 /\ LastEvent(r) = "partnerFailed"
                 /\ Alone(r) => partnerInbox = {} /\ store = << >>
            /\ "notified" \in Events(r) =>
                 /\ Count(r, "partnerCall") = 1
                 /\ [membership_code |-> code[r]] \in partnerInbox
                 /\ Before(r, "notified", "insertCall")

\* C18 witness: the one request of a run met a connection error and the run
\* ended there
C18_Witness ==
    \E r \in Reqs :
        /\ variant = 2
        /\ Count(r, "partnerCall") = 1
        /\ LastEvent(r) = "partnerFailed"
        /\ pc[r] = "done"
        /\ [membership_code |-> code[r]] \notin partnerInbox

\* C19: in variant 1 the 200 response is sent before anything else, a webhook
\* with test === true or without an order identifier makes no annotation
\* call, and the keep-alive interval runs only while the annotation call is
\* awaited: it is cleared when the call settles, so no timer is left running
\* once the handler has ended.
C19_AckFirstTimerCleared ==
    \A r \in Reqs :
        (variant = 1 /\ Arrived(r)) =>
            /\ status[r] = << 200 >>
            /\ (~req[r].body.json \/ req[r].body.test \/ req[r].body.id = Absent) =>
                 /\ "annotateCall" \notin Events(r)
                 /\ code[r] = NoCode
                 /\ pc[r] = "done"
            /\ r \in keepAlive <=> pc[r] = "annotate1"
            /\ pc[r] = "annotate1" => LastEvent(r) = "annotateCall"
            /\ (Alone(r) /\ "annotateCall" \notin Events(r)) =>
                 \A o \in OrderIds : orderNote[o] = NoNote

\* C19 witness: the annotation call of an acknowledged webhook has settled and
\* its interval is cleared
C19_Witness ==
    \E r \in Reqs :
        /\ variant = 1
        /\ status[r] = << 200 >>
        /\ "annotateCall" \in Events(r)
        /\ pc[r] \in { "sent1", "done" }
        /\ r \notin keepAlive

\* C20: an order carries a 'Verification Code' note written by the pipeline
\* only if the store holds a record with that code and that order reference
\* and the partner has been sent that code.
C20_NoteImpliesRecordAndPartner ==
    variant = 2 =>
        \A o \in OrderIds :
            orderNote[o] # NoNote =>
                /\ Head(orderNote[o]) = "Verification Code: "
                /\ \E i \in 1..Len(store) :
                      store[i].orderId = o /\ store[i].code = Tail(orderNote[o])
                /\ [membership_code |-> Tail(orderNote[o])] \in partnerInbox

\* C20 witness: an order carries the note of a finished run
C20_Witness ==
    \E r \in Reqs :
        /\ variant = 2
        /\ "annotated" \in Events(r)
        /\ orderNote[orderId(r)] # NoNote
        /\ Tail(orderNote[orderId(r)]) = code[r]

====
